---- MODULE Spec2Model ----
(***************************************************************************)
(* A model of tools/style_lint.py (the BookForge style linter) and of the  *)
(* page budget of bookforge/stages/product_brief.py.                       *)
(*                                                                         *)
(* A text is a sequence of Unicode code points (naturals), so that the     *)
(* character classes of the regular expressions are the ranges the source  *)
(* writes: [a-z] is 97..122, the Cyrillic [а-я] is 1072..1103, and so on.  *)
(* Each literal tuple below is annotated with the string it spells.        *)
(***************************************************************************)
EXTENDS Integers, Sequences, FiniteSets, TLC

VARIABLES
    \* one run of main()
    pc,           \* where main() is: "start", "load_cfg", "params", "targets",
                  \* "loop", "render", "return", "done" ("idle": no run)
    args,         \* the argparse namespace
    cfg_file,     \* config/style.yaml on disk: Missing or its parsed content
    cfg,          \* what load_cfg returned
    params,       \* the effective rule parameters of lines 292-303
    disk,         \* file -> its text, or Unreadable
    targets,      \* what iter_targets returned
    idx,          \* the loop's position in targets
    stmt,         \* the position within the loop body
    results,      \* the list of file reports
    stdout,       \* the printed report, None while nothing is printed
    stderr,       \* what went to the error stream, None while nothing did
    json_file,    \* the file --json names, None while it is not written
    exit_status,  \* the status of the process, None while it runs
    hist,         \* history: the reads and writes of target files, in order
    \* one application of a pure function
    fn_in,        \* the argument of the function under check
    fn_out,       \* its result
    fn_again,     \* the result of the following step
    fn_pc         \* "idle" | "ready" | "once" | "twice"

runVars == <<pc, args, cfg_file, cfg, params, disk, targets, idx, stmt, results,
             stdout, stderr, json_file, exit_status, hist>>
fnVars == <<fn_in, fn_out, fn_again, fn_pc>>
vars == <<pc, args, cfg_file, cfg, params, disk, targets, idx, stmt, results,
          stdout, stderr, json_file, exit_status, hist, fn_in, fn_out, fn_again, fn_pc>>

\* An optional value: None, or Some(v).  Python's None, an absent key, a
\* variable not yet assigned.
None == [some |-> FALSE]
Some(v) == [some |-> TRUE, val |-> v]

\* no run of main() is in progress
RunIdle ==
    /\ pc = "idle" /\ args = None /\ cfg_file = None /\ cfg = None /\ params = None
    /\ disk = None /\ targets = None /\ idx = 0 /\ stmt = 0 /\ results = <<>>
    /\ stdout = None /\ stderr = None /\ json_file = None /\ exit_status = None
    /\ hist = <<>>

\* no pure function is under check
FnIdle == fn_in = <<>> /\ fn_out = <<>> /\ fn_again = <<>> /\ fn_pc = "idle"

(***************************************************************************)
(* Characters                                                              *)
(***************************************************************************)
TAB == 9
NL == 10
SP == 32
DOT == 46
BANG == 33
QMARK == 63
HYPHEN == 45

\* Python's str.strip()/split() and the regex \s, over the characters used here
Whitespace == {SP, TAB, NL}

(***************************************************************************)
(* Generic sequence helpers                                                *)
(***************************************************************************)
RECURSIVE RunEnd(_, _, _)
\* the index just past the maximal run of characters of cls that starts at i
RunEnd(s, i, cls) ==
    IF i <= Len(s) /\ s[i] \in cls THEN RunEnd(s, i + 1, cls) ELSE i

RECURSIVE SeqsUpTo(_, _)
\* all sequences over S of length at most n
SeqsUpTo(S, n) ==
    IF n = 0 THEN {<<>>}
    ELSE LET shorter == SeqsUpTo(S, n - 1)
         IN  shorter \cup {Append(s, c) : s \in {t \in shorter : Len(t) = n - 1}, c \in S}

MaxOf(S) == CHOOSE m \in S : \A k \in S : k <= m

RECURSIVE Flatten(_)
\* the concatenation of a sequence of sequences
Flatten(ss) == IF ss = <<>> THEN <<>> ELSE Head(ss) \o Flatten(Tail(ss))

\* s ends with suffix
EndsWith(s, suffix) ==
    /\ Len(suffix) <= Len(s)
    /\ SubSeq(s, Len(s) - Len(suffix) + 1, Len(s)) = suffix

\* needle occurs in hay as a contiguous substring (Python's "in" on str)
Contains(hay, needle) ==
    \E i \in 1..(Len(hay) - Len(needle) + 1) :
        \A k \in 1..Len(needle) : hay[i + k - 1] = needle[k]

(***************************************************************************)
(* Python str methods                                                      *)
(***************************************************************************)
\* str.lower() on one character: A-Z, the Cyrillic capitals and their
\* extension block (which holds the capital io)
LowerChar(c) ==
    IF c \in 65..90 THEN c + 32
    ELSE IF c \in 1040..1071 THEN c + 32
    ELSE IF c \in 1024..1039 THEN c + 80
    ELSE c

Lower(s) == [i \in 1..Len(s) |-> LowerChar(s[i])]

RECURSIVE LStrip(_)
LStrip(s) == IF s # <<>> /\ Head(s) \in Whitespace THEN LStrip(Tail(s)) ELSE s

RECURSIVE RStrip(_)
RStrip(s) ==
    IF s # <<>> /\ s[Len(s)] \in Whitespace THEN RStrip(SubSeq(s, 1, Len(s) - 1)) ELSE s

Strip(s) == RStrip(LStrip(s))

RECURSIVE CollapseWsFrom(_, _)
\* re.sub(r"\s+", " ", s), scanning from index i
CollapseWsFrom(s, i) ==
    IF i > Len(s) THEN <<>>
    ELSE IF s[i] \in Whitespace
         THEN <<SP>> \o CollapseWsFrom(s, RunEnd(s, i, Whitespace))
         ELSE <<s[i]>> \o CollapseWsFrom(s, i + 1)

\* " ".join(s.lower().split())
normalize(s) == CollapseWsFrom(Strip(Lower(s)), 1)

(***************************************************************************)
(* Segmentation: split_paragraphs, _ends_with_abbrev, split_sentences      *)
(***************************************************************************)
ABBREV_LIST == <<
    <<1090, 46, 1077, 46>>,             \* "т.е."
    <<1090, 46, 1082, 46>>,             \* "т.к."
    <<1080, 32, 1090, 46, 1076, 46>>,   \* "и т.д."
    <<1080, 32, 1090, 46, 1087, 46>>,   \* "и т.п."
    <<1076, 46, 1088, 46>>,             \* "д.р."
    <<1075, 46>>,                       \* "г."
    <<1089, 1090, 1088, 46>>,           \* "стр."
    <<1088, 1080, 1089, 46>> >>         \* "рис."

\* the characters of the class [.!?]
SentenceEnders == {DOT, BANG, QMARK}

RECURSIVE ReSplitBlankFrom(_, _, _)
\* re.split(r"\n\s*\n", s): scanning from i, the current part starting at start.
\* At a newline the greedy \s* runs over the whole whitespace run and backs up
\* to its last newline; the separator is everything from i to that newline.
ReSplitBlankFrom(s, i, start) ==
    IF i > Len(s) THEN <<SubSeq(s, start, Len(s))>>
    ELSE IF s[i] = NL
         THEN LET j == RunEnd(s, i + 1, Whitespace)
                  nls == {k \in (i + 1)..(j - 1) : s[k] = NL}
              IN  IF nls # {}
                  THEN <<SubSeq(s, start, i - 1)>>
                           \o ReSplitBlankFrom(s, MaxOf(nls) + 1, MaxOf(nls) + 1)
                  ELSE ReSplitBlankFrom(s, i + 1, start)
         ELSE ReSplitBlankFrom(s, i + 1, start)

RECURSIVE StripAndDropEmpty(_)
\* [p.strip() for p in parts if p.strip()]
StripAndDropEmpty(parts) ==
    IF parts = <<>> THEN <<>>
    ELSE IF Strip(Head(parts)) = <<>> THEN StripAndDropEmpty(Tail(parts))
         ELSE <<Strip(Head(parts))>> \o StripAndDropEmpty(Tail(parts))

split_paragraphs(text) == StripAndDropEmpty(ReSplitBlankFrom(Strip(text), 1, 1))

\* a plausible slip: the abbreviation guard never fires
NeverEndsWithAbbrev(chunk) == FALSE

_ends_with_abbrev(chunk) ==
    LET s_norm_lower == Lower(CollapseWsFrom(Strip(chunk), 1))
    IN  \E k \in 1..Len(ABBREV_LIST) : EndsWith(s_norm_lower, ABBREV_LIST[k])

RECURSIVE SentSplitSimpleFrom(_, _, _)
\* SENT_SPLIT_SIMPLE_RE.split(s) for r"(?<=[.!?])\s+": scanning from i, the
\* current part starting at start
SentSplitSimpleFrom(s, i, start) ==
    IF i > Len(s) THEN <<SubSeq(s, start, Len(s))>>
    ELSE IF s[i] \in Whitespace /\ i > 1 /\ s[i - 1] \in SentenceEnders
         THEN LET j == RunEnd(s, i, Whitespace)
              IN  <<SubSeq(s, start, i - 1)>> \o SentSplitSimpleFrom(s, j, j)
         ELSE SentSplitSimpleFrom(s, i + 1, start)

RECURSIVE MergeTokensOverwriting(_, _)
\* a plausible slip: the token put in place of the last sentence instead of
\* being joined to it
MergeTokensOverwriting(raw, merged) ==
    IF raw = <<>> THEN merged
    ELSE LET token == Strip(Head(raw))
             n == Len(merged)
         IN  IF token = <<>> THEN MergeTokensOverwriting(Tail(raw), merged)
             ELSE IF n > 0 /\ _ends_with_abbrev(merged[n])
                  THEN MergeTokensOverwriting(Tail(raw), [merged EXCEPT ![n] = LStrip(token)])
                  ELSE MergeTokensOverwriting(Tail(raw), Append(merged, token))

RECURSIVE MergeTokens(_, _)
\* the loop of split_sentences over the raw tokens, merged being the list so far
MergeTokens(raw, merged) ==
    IF raw = <<>> THEN merged
    ELSE LET token == Strip(Head(raw))
             n == Len(merged)
         IN  IF token = <<>> THEN MergeTokens(Tail(raw), merged)
             ELSE IF n > 0 /\ _ends_with_abbrev(merged[n])
                  THEN MergeTokens(Tail(raw),
                           [merged EXCEPT ![n] = RStrip(merged[n]) \o <<SP>> \o LStrip(token)])
                  ELSE MergeTokens(Tail(raw), Append(merged, token))

split_sentences(para) == MergeTokens(SentSplitSimpleFrom(para, 1, 1), <<>>)

(***************************************************************************)
(* Regular expressions of the rule set                                     *)
(***************************************************************************)
\* the class of WORD_RE: [А-Яа-яA-Za-z0-9ёЁ\-]
WordReChars == (1040..1103) \cup (65..90) \cup (97..122) \cup (48..57) \cup {1105, 1025, HYPHEN}

\* \d
Digits == 48..57

\* the class \w: letters (Latin and the Cyrillic block), digits and the underscore
WChars == (48..57) \cup (65..90) \cup (97..122) \cup {95} \cup (1024..1119)

IsW(c) == c \in WChars

\* \b holds between s[i-1] and s[i]
WordBoundary(s, i) ==
    LET before == i - 1 >= 1 /\ i - 1 <= Len(s) /\ IsW(s[i - 1])
        after == i >= 1 /\ i <= Len(s) /\ IsW(s[i])
    IN  before # after

\* the literal lit (given in lower case) matches s at i under re.IGNORECASE
LitAt(s, i, lit) ==
    /\ i >= 1
    /\ i + Len(lit) - 1 <= Len(s)
    /\ \A k \in 1..Len(lit) : LowerChar(s[i + k - 1]) = lit[k]

\* s[i..j-1] is a non-empty run of characters satisfying the class
AllIn(s, i, j, cls) == i < j /\ j - 1 <= Len(s) /\ \A k \in i..(j - 1) : s[k] \in cls
AllW(s, i, j) == i < j /\ j - 1 <= Len(s) /\ \A k \in i..(j - 1) : IsW(s[k])
\* [а-я]+ under re.IGNORECASE
AllCyrLower(s, i, j) ==
    i < j /\ j - 1 <= Len(s) /\ \A k \in i..(j - 1) : LowerChar(s[k]) \in 1072..1103

\* re.search(r"\b<lit>\b", s, re.IGNORECASE)
SearchWord(s, lit) ==
    \E i \in 1..Len(s) : LitAt(s, i, lit) /\ WordBoundary(s, i) /\ WordBoundary(s, i + Len(lit))

\* \bбыло\s+принято\s+решение\b
PassiveHint1(s) ==
    \E i \in 1..Len(s) :
        /\ LitAt(s, i, <<1073, 1099, 1083, 1086>>)                              \* "было"
        /\ WordBoundary(s, i)
        /\ \E j \in (i + 5)..Len(s) :
            /\ AllIn(s, i + 4, j, Whitespace)
            /\ LitAt(s, j, <<1087, 1088, 1080, 1085, 1103, 1090, 1086>>)        \* "принято"
            /\ \E k \in (j + 8)..Len(s) :
                /\ AllIn(s, j + 7, k, Whitespace)
                /\ LitAt(s, k, <<1088, 1077, 1096, 1077, 1085, 1080, 1077>>)    \* "решение"
                /\ WordBoundary(s, k + 7)

\* \bбыл[аио]?\s+\w+н[а-я]+\b
PassiveHint2(s) ==
    \E i \in 1..Len(s) :
        /\ LitAt(s, i, <<1073, 1099, 1083>>)                                    \* "был"
        /\ WordBoundary(s, i)
        /\ \E a \in {i + 3, i + 4} :
            /\ a = i + 4 => (i + 3 <= Len(s) /\ LowerChar(s[i + 3]) \in {1072, 1080, 1086})   \* [аио]
            /\ \E j \in (a + 1)..Len(s) :
                /\ AllIn(s, a, j, Whitespace)
                /\ \E m \in (j + 1)..Len(s) :
                    /\ AllW(s, j, m)
                    /\ LowerChar(s[m]) = 1085                                   \* "н"
                    /\ \E e \in (m + 2)..(Len(s) + 1) :
                        AllCyrLower(s, m + 1, e) /\ WordBoundary(s, e)

\* \bпроизведен[аоы]?\b
PassiveHint3(s) ==
    \E i \in 1..Len(s) :
        /\ LitAt(s, i, <<1087, 1088, 1086, 1080, 1079, 1074, 1077, 1076, 1077, 1085>>)   \* "произведен"
        /\ WordBoundary(s, i)
        /\ \/ WordBoundary(s, i + 10)
           \/ /\ i + 10 <= Len(s)
              /\ LowerChar(s[i + 10]) \in {1072, 1086, 1099}                    \* [аоы]
              /\ WordBoundary(s, i + 11)

\* PASSIVE_RE.search(s)
PASSIVE_RE(s) == PassiveHint1(s) \/ PassiveHint2(s) \/ PassiveHint3(s)

VAGUE_CLAIMS == <<
    <<1079, 1085, 1072, 1095, 1080, 1090, 1077, 1083, 1100, 1085, 1086>>,   \* "значительно"
    <<1089, 1091, 1097, 1077, 1089, 1090, 1074, 1077, 1085, 1085, 1086>>,   \* "существенно"
    <<1073, 1099, 1089, 1090, 1088, 1086>>,                                 \* "быстро"
    <<1101, 1092, 1092, 1077, 1082, 1090, 1080, 1074, 1085, 1086>>,         \* "эффективно"
    <<1085, 1072, 32, 1087, 1086, 1088, 1103, 1076, 1086, 1082>> >>         \* "на порядок"

\* VAGUE_RE.search(s)
VAGUE_RE(s) == \E k \in 1..Len(VAGUE_CLAIMS) : SearchWord(s, VAGUE_CLAIMS[k])

\* the unit alternatives of METRIC_RE, in lower case
MetricUnits == {
    <<37>>,                                     \* "%"
    <<1084, 1080, 1085>>,                       \* "мин"
    <<1095, 1072, 1089>>,                       \* "час"
    <<1076, 1085>>,                             \* "дн"
    <<1096, 1072, 1075>>,                       \* "шаг"
    <<1087, 1088, 1072, 1074, 1080, 1083>>,     \* "правил"
    <<109, 98>>,                                \* "MB"
    <<103, 98>>,                                \* "GB"
    <<1089, 1090, 1088>>,                       \* "стр"
    <<1089, 1077, 1082>> }                      \* "сек"

\* METRIC_RE.search(s): \d+\s?(unit)\b under re.IGNORECASE
METRIC_RE(s) ==
    \E d \in 1..Len(s) :
        /\ s[d] \in Digits
        /\ \E u \in {d + 1, d + 2} :
            /\ u = d + 2 => (d + 1 <= Len(s) /\ s[d + 1] \in Whitespace)
            /\ \E unit \in MetricUnits : LitAt(s, u, unit) /\ WordBoundary(s, u + Len(unit))

has_metric_nearby(s) == METRIC_RE(s)

\* re.search(r"\brouter\b", s, re.IGNORECASE)
RouterRe(s) == SearchWord(s, <<114, 111, 117, 116, 101, 114>>)                \* "router"

RECURSIVE CountWordsFrom(_, _)
\* the number of matches of WORD_RE.findall: maximal runs of word characters
CountWordsFrom(s, i) ==
    IF i > Len(s) THEN 0
    ELSE IF s[i] \in WordReChars
         THEN 1 + CountWordsFrom(s, RunEnd(s, i, WordReChars))
         ELSE CountWordsFrom(s, i + 1)

word_count(s) == CountWordsFrom(s, 1)

TERMINOLOGY_KEYS == <<
    <<1072, 1075, 1077, 1085, 1090>>,   \* "агент"
    <<1086, 1088, 1082, 1077, 1089, 1090, 1088, 1072, 1090, 1086, 1088>>,   \* "оркестратор"
    <<1087, 1083, 1072, 1085, 1080, 1088, 1086, 1074, 1097, 1080, 1082>>,   \* "планировщик"
    <<1082, 1088, 1080, 1090, 1080, 1082>>,   \* "критик"
    <<1088, 1077, 1076, 1072, 1082, 1090, 1086, 1088>>,   \* "редактор"
    <<1088, 1091, 1090, 1077, 1088>>,   \* "рутер"
    <<1087, 1072, 1084, 1103, 1090, 1100>>,   \* "память"
    <<1082, 1086, 1085, 1090, 1077, 1082, 1089, 1090, 1085, 1086, 1077, 95, 1086, 1082, 1085, 1086>>,   \* "контекстное_окно"
    <<82, 65, 71>>,   \* "RAG"
    <<1080, 1085, 1089, 1090, 1088, 1091, 1084, 1077, 1085, 1090>>,   \* "инструмент"
    <<1087, 1086, 1083, 1080, 1090, 1080, 1082, 1072>>,   \* "политика"
    <<74, 83, 79, 78, 95, 1089, 1093, 1077, 1084, 1072>>,   \* "JSON_схема"
    <<1087, 1072, 1081, 1087, 1083, 1072, 1081, 1085>>,   \* "пайплайн"
    <<105, 100, 101, 109, 112, 111, 116, 101, 110, 99, 121>>,   \* "idempotency"
    <<1090, 1077, 1083, 1077, 1084, 1077, 1090, 1088, 1080, 1103>>,   \* "телеметрия"
    <<1072, 1088, 1090, 1077, 1092, 1072, 1082, 1090>>,   \* "артефакт"
    <<1095, 1077, 1082, 1083, 1080, 1089, 1090>>,   \* "чеклист"
    <<1076, 1077, 1076, 1091, 1087, 1083, 1080, 1082, 1072, 1094, 1080, 1103>>,   \* "дедупликация"
    <<1075, 1088, 1077, 1081, 1076, 1080, 1085, 1075>> >>   \* "грейдинг"

(***************************************************************************)
(* Configuration: the parsed config/style.yaml.  A key that is absent has  *)
(* the value None, a present one Some(v).  cfg.lint holds the lint         *)
(* section, cfg.forbidden the forbidden section with its lists cliche      *)
(* ("клише") and lexicon ("лексика").  A lexicon item is                   *)
(* [kind |-> "str", val |-> text], [kind |-> "list", items |-> <<text,     *)
(* ...>>] or [kind |-> "other"].                                           *)
(***************************************************************************)
\* dict.get(key, default) on a section whose absent keys are None
Get(v, default) == IF v.some THEN v.val ELSE default

RECURSIVE LexiconItems(_)
\* the loop over forbidden["лексика"]: strings appended, lists extended
LexiconItems(lex) ==
    IF lex = <<>> THEN <<>>
    ELSE LET item == Head(lex)
         IN  (IF item.kind = "str" THEN <<item.val>>
              ELSE IF item.kind = "list" THEN item.items
              ELSE <<>>) \o LexiconItems(Tail(lex))

RECURSIVE DedupBySpelling(_, _, _)
\* a plausible slip: the spelling, not its normalized form, remembered as seen
DedupBySpelling(banned, seen, out) ==
    IF banned = <<>> THEN out
    ELSE LET key == normalize(Head(banned))
         IN  IF key # <<>> /\ Head(banned) \notin seen
             THEN DedupBySpelling(Tail(banned), seen \cup {Head(banned)}, Append(out, Head(banned)))
             ELSE DedupBySpelling(Tail(banned), seen, out)

RECURSIVE DedupByNormalForm(_, _, _)
\* the de-dup loop of collect_banned: the first spelling of each non-empty
\* normalized form is kept, in first-seen order
DedupByNormalForm(banned, seen, out) ==
    IF banned = <<>> THEN out
    ELSE LET key == normalize(Head(banned))
         IN  IF key # <<>> /\ key \notin seen
             THEN DedupByNormalForm(Tail(banned), seen \cup {key}, Append(out, Head(banned)))
             ELSE DedupByNormalForm(Tail(banned), seen, out)

collect_banned(conf) ==
    LET flat == Get(conf.lint.banned_phrases, <<>>)
        cliche == Get(conf.forbidden.cliche, <<>>)
        lexicon == LexiconItems(Get(conf.forbidden.lexicon, <<>>))
    IN  DedupByNormalForm(flat \o cliche \o lexicon, {}, <<>>)

(***************************************************************************)
(* check_file: the findings of one text                                    *)
(***************************************************************************)
\* a plausible slip: the hard maximum tested with >= instead of >
LengthIssuesInclusiveMax(wc, pi, si, sr, max_sent_len) ==
    IF wc >= max_sent_len
    THEN <<[level |-> "WARN", type |-> "sentence_len", para |-> pi, sent |-> si,
            msg |-> <<wc, max_sent_len>>]>>
    ELSE IF wc < sr[1] \/ wc > sr[2]
         THEN <<[level |-> "INFO", type |-> "sentence_target", para |-> pi, sent |-> si,
                 msg |-> <<wc, sr[1], sr[2]>>]>>
         ELSE <<>>

\* the if/elif on the word count of a sentence
LengthIssues(wc, pi, si, sr, max_sent_len) ==
    IF wc > max_sent_len
    THEN <<[level |-> "WARN", type |-> "sentence_len", para |-> pi, sent |-> si,
            msg |-> <<wc, max_sent_len>>]>>
    ELSE IF wc < sr[1] \/ wc > sr[2]
         THEN <<[level |-> "INFO", type |-> "sentence_target", para |-> pi, sent |-> si,
                 msg |-> <<wc, sr[1], sr[2]>>]>>
         ELSE <<>>

\* the body of the loop over the sentences of a paragraph
SentenceIssues(s, pi, si, sr, max_sent_len, passive_allowed, require_metrics) ==
    LengthIssues(word_count(s), pi, si, sr, max_sent_len)
    \o (IF ~passive_allowed /\ PASSIVE_RE(s)
        THEN <<[level |-> "WARN", type |-> "passive", para |-> pi, sent |-> si,
                msg |-> "passive"]>>
        ELSE <<>>)
    \o (IF require_metrics /\ VAGUE_RE(s) /\ ~has_metric_nearby(s)
        THEN <<[level |-> "WARN", type |-> "vague_no_metric", para |-> pi, sent |-> si,
                msg |-> "no metric"]>>
        ELSE <<>>)
    \o (IF RouterRe(s)
        THEN <<[level |-> "INFO", type |-> "terminology", para |-> pi, sent |-> si,
                msg |-> "router"]>>
        ELSE <<>>)

RECURSIVE BannedIssues(_, _, _)
\* the loop over zip(banned, banned_norm) for the paragraph norm_para
BannedIssues(banned, norm_para, pi) ==
    IF banned = <<>> THEN <<>>
    ELSE LET pnorm == normalize(Head(banned))
         IN  (IF pnorm # <<>> /\ Contains(norm_para, pnorm)
              THEN <<[level |-> "ERROR", type |-> "banned", para |-> pi,
                      msg |-> Head(banned)]>>
              ELSE <<>>) \o BannedIssues(Tail(banned), norm_para, pi)

\* a plausible slip: the sentence loop placed before the paragraph-level checks
ParagraphIssuesSentencesFirst(para, pi, banned, sr, max_sent_len, max_para_sents, passive_allowed, require_metrics) ==
    LET sents == split_sentences(para)
    IN  Flatten([si \in 1..Len(sents) |->
                    SentenceIssues(sents[si], pi, si, sr, max_sent_len,
                                   passive_allowed, require_metrics)])
        \o (IF Len(sents) > max_para_sents
            THEN <<[level |-> "WARN", type |-> "paragraph_len", para |-> pi,
                    msg |-> <<Len(sents), max_para_sents>>]>>
            ELSE <<>>)
        \o BannedIssues(banned, normalize(para), pi)

\* the body of the loop over the paragraphs
ParagraphIssues(para, pi, banned, sr, max_sent_len, max_para_sents, passive_allowed, require_metrics) ==
    LET sents == split_sentences(para)
    IN  (IF Len(sents) > max_para_sents
         THEN <<[level |-> "WARN", type |-> "paragraph_len", para |-> pi,
                 msg |-> <<Len(sents), max_para_sents>>]>>
         ELSE <<>>)
        \o BannedIssues(banned, normalize(para), pi)
        \o Flatten([si \in 1..Len(sents) |->
                       SentenceIssues(sents[si], pi, si, sr, max_sent_len,
                                      passive_allowed, require_metrics)])

\* found_terms: for each index of TERMINOLOGY_KEYS, whether the term occurs
TermCoverage(text) ==
    LET lowered == Lower(text)
    IN  [k \in 1..Len(TERMINOLOGY_KEYS) |-> Contains(lowered, Lower(TERMINOLOGY_KEYS[k]))]

\* check_file on the text read from path
check_file(path, text, conf, sr, max_sent_len, max_para_sents, passive_allowed, require_metrics) ==
    LET paragraphs == split_paragraphs(text)
        banned == collect_banned(conf)
    IN  [file |-> path,
         issues |-> Flatten([pi \in 1..Len(paragraphs) |->
                        ParagraphIssues(paragraphs[pi], pi, banned, sr, max_sent_len,
                                        max_para_sents, passive_allowed, require_metrics)]),
         term_coverage |-> TermCoverage(text)]

(***************************************************************************)
(* safe_autofix: the whitespace-only text transformation                   *)
(***************************************************************************)
RECURSIVE StripTrailingFrom(_, _)
\* re.sub(r"[ \t]+$", "", txt, flags=re.MULTILINE), scanning from index i:
\* a maximal run of spaces/tabs is deleted when it ends at end of text or
\* right before a newline, and kept otherwise
StripTrailingFrom(s, i) ==
    IF i > Len(s) THEN <<>>
    ELSE IF s[i] \in {SP, TAB}
         THEN LET j == RunEnd(s, i, {SP, TAB})
              IN  IF j > Len(s) \/ s[j] = NL
                  THEN StripTrailingFrom(s, j)
                  ELSE SubSeq(s, i, j - 1) \o StripTrailingFrom(s, j)
         ELSE <<s[i]>> \o StripTrailingFrom(s, i + 1)

StripTrailing(s) == StripTrailingFrom(s, 1)

RECURSIVE CollapseFrom(_, _)
\* re.sub(r"\n{3,}", "\n\n", txt), scanning from index i
CollapseFrom(s, i) ==
    IF i > Len(s) THEN <<>>
    ELSE IF s[i] = NL
         THEN LET j == RunEnd(s, i, {NL})
              IN  IF j - i >= 3
                  THEN <<NL, NL>> \o CollapseFrom(s, j)
                  ELSE SubSeq(s, i, j - 1) \o CollapseFrom(s, j)
         ELSE <<s[i]>> \o CollapseFrom(s, i + 1)

CollapseBlankLines(s) == CollapseFrom(s, 1)

\* a plausible slip: the two substitutions applied in the other order
AutofixCollapseFirst(txt) == StripTrailing(CollapseBlankLines(txt))

\* the text safe_autofix writes back for the text it read
AutofixText(txt) == CollapseBlankLines(StripTrailing(txt))

(***************************************************************************)
(* Specification SpecAutofix: autofix applied twice to a bounded text      *)
(***************************************************************************)
MaxFixLen == 5

\* "a", space, tab, newline
FixAlphabet == {97, SP, TAB, NL}

InitAutofix ==
    /\ fn_in \in SeqsUpTo(FixAlphabet, MaxFixLen)
    /\ fn_out = <<>>
    /\ fn_again = <<>>
    /\ fn_pc = "ready"
    /\ RunIdle

ApplyAutofix ==
    /\ fn_pc = "ready"
    /\ fn_out' = AutofixText(fn_in)
    /\ fn_pc' = "once"
    /\ UNCHANGED <<fn_in, fn_again>>
    /\ UNCHANGED runVars

ApplyAutofixAgain ==
    /\ fn_pc = "once"
    /\ fn_again' = AutofixText(fn_out)
    /\ fn_pc' = "twice"
    /\ UNCHANGED <<fn_in, fn_out>>
    /\ UNCHANGED runVars

NextAutofix == ApplyAutofix \/ ApplyAutofixAgain

SpecAutofix == InitAutofix /\ [][NextAutofix]_vars

\* no line of x ends in a space or a tab
NoTrailingBlanks(x) ==
    \A i \in 1..Len(x) : x[i] \in {SP, TAB} => (i < Len(x) /\ x[i + 1] # NL)

\* x holds no run of three or more newlines
NoLongNewlineRun(x) ==
    \A i \in 1..Len(x) : ~(i + 2 <= Len(x) /\ x[i] = NL /\ x[i + 1] = NL /\ x[i + 2] = NL)

\* C3: autofix is idempotent, autofix(autofix(x)) = autofix(x) for every text x,
\* and it is the identity on every text that has no trailing space/tab on any
\* line and no run of three or more newlines.
C3_AutofixIdempotent ==
    /\ fn_pc = "twice" => fn_again = fn_out
    /\ (fn_pc \in {"once", "twice"} /\ NoTrailingBlanks(fn_in) /\ NoLongNewlineRun(fn_in))
          => fn_out = fn_in

\* C3 witness: a text that autofix changed in both ways (a stripped line end and
\* a collapsed newline run) has been fixed twice
C3_Witness ==
    /\ fn_pc = "twice"
    /\ ~NoTrailingBlanks(fn_in)
    /\ Len(fn_out) + 2 <= Len(fn_in)
    /\ ~NoLongNewlineRun(StripTrailing(fn_in))
    /\ fn_out # <<>>

(***************************************************************************)
(* render_md: the human-readable report and the error count                *)
(***************************************************************************)
\* the line render_md writes for one finding: level, location, message
IssueLine(it) ==
    [kind |-> "issue", level |-> it.level,
     where |-> <<it.para>> \o (IF "sent" \in DOMAIN it THEN <<it.sent>> ELSE <<>>),
     msg |-> it.msg]

\* the lines of one file's section
FileSection(r) ==
    <<[kind |-> "file", file |-> r.file]>>
    \o (IF r.issues = <<>>
        THEN <<[kind |-> "no issues"]>>
        ELSE [i \in 1..Len(r.issues) |-> IssueLine(r.issues[i])]
             \o (LET missing == SelectSeq([k \in 1..Len(TERMINOLOGY_KEYS) |-> k],
                                          LAMBDA k : ~r.term_coverage[k])
                 IN  IF missing # <<>>
                     THEN <<[kind |-> "blank"], [kind |-> "missing terms", terms |-> missing]>>
                     ELSE <<>>)
             \o <<[kind |-> "blank"]>>)

RECURSIVE CountErrors(_)
\* total_err of render_md: one per finding whose level is ERROR
CountErrors(issues) ==
    IF issues = <<>> THEN 0
    ELSE (IF Head(issues).level = "ERROR" THEN 1 ELSE 0) + CountErrors(Tail(issues))

render_md(rs) ==
    [md |-> <<[kind |-> "title"]>> \o Flatten([i \in 1..Len(rs) |-> FileSection(rs[i])]),
     total_err |-> CountErrors(Flatten([i \in 1..Len(rs) |-> rs[i].issues]))]

(***************************************************************************)
(* The file system of a run.  A file is named by the rank of its resolved  *)
(* path in the order of Path comparison: 1 is ROOT/a.md, 2 is              *)
(* ROOT/build/x.md (below a directory DEFAULT_EXCLUDES names), 3 is        *)
(* ROOT/docs/b.txt.                                                        *)
(***************************************************************************)
Files == {1, 2, 3}

\* the path arguments a run is given: two spellings of a.md, the directory
\* docs, the project root, and a path that does not exist
PathNames == {"a.md", "./a.md", "docs", ".", "nope"}

\* Path(a).is_file()
is_file(a) == a \in {"a.md", "./a.md"}

\* Path(a).is_dir()
is_dir(a) == a \in {"docs", "."}

\* Path(a).resolve() for a file argument
resolve(a) == 1

\* the files below a directory
FilesBelow(a) == IF a = "." THEN {1, 2, 3} ELSE IF a = "docs" THEN {3} ELSE {}

\* the suffix of a file, which the default globs **/*.md and **/*.txt select on
Suffix(f) == IF f = 3 THEN "txt" ELSE "md"

\* _is_excluded against DEFAULT_EXCLUDES: build/** matches ROOT/build/x.md
_is_excluded(f) == f = 2

\* p.rglob(g): the files below a of the suffix g, in the order the directory
\* scan yields them (listing: all files in that order)
rglob(a, g, listing) ==
    SelectSeq(listing, LAMBDA f : f \in FilesBelow(a) /\ Suffix(f) = g)

RECURSIVE SortSet(_)
\* sorted(S)
SortSet(S) ==
    IF S = {} THEN <<>>
    ELSE LET m == CHOOSE x \in S : \A y \in S : x <= y
         IN  <<m>> \o SortSet(S \ {m})

RECURSIVE DedupKeepOrder(_, _)
DedupKeepOrder(fs, seen) ==
    IF fs = <<>> THEN <<>>
    ELSE IF Head(fs) \in seen THEN DedupKeepOrder(Tail(fs), seen)
         ELSE <<Head(fs)>> \o DedupKeepOrder(Tail(fs), seen \cup {Head(fs)})

RECURSIVE DiscoverFiles(_, _)
\* the loop of iter_targets over the inputs: the list files, in discovery order
DiscoverFiles(inputs, listing) ==
    IF inputs = <<>> THEN <<>>
    ELSE LET a == Head(inputs)
             found == IF is_file(a)
                      THEN (IF ~_is_excluded(resolve(a)) THEN <<resolve(a)>> ELSE <<>>)
                      ELSE IF is_dir(a)
                           THEN SelectSeq(rglob(a, "md", listing) \o rglob(a, "txt", listing),
                                          LAMBDA f : ~_is_excluded(f))
                           ELSE <<>>
         IN  found \o DiscoverFiles(Tail(inputs), listing)

\* a plausible slip: duplicates removed, the discovery order kept
IterTargetsUnsorted(a, listing) ==
    DedupKeepOrder(DiscoverFiles(IF a.paths = <<>> THEN <<".">> ELSE a.paths, listing), {})

iter_targets(a, listing) ==
    LET files == DiscoverFiles(IF a.paths = <<>> THEN <<".">> ELSE a.paths, listing)
    IN  SortSet({files[i] : i \in 1..Len(files)})

(***************************************************************************)
(* The effective rule parameters, lines 292-303 of main().  An option that *)
(* was not given is None.  The string of --target-len is the sequence of   *)
(* its comma-separated fields, each Some(n) (the text of the integer n) or *)
(* None (a text int() rejects); the empty string is <<>>.                  *)
(***************************************************************************)
\* Python truthiness of an optional integer: None and 0 are falsy
TruthyInt(o) == o.some /\ o.val # 0

\* Python truthiness of an optional string: None and "" are falsy
TruthyStr(o) == o.some /\ o.val # <<>>

\* a, b = args.target_len.split(","); int(a), int(b) succeeds
TargetLenUnpacks(fields) == Len(fields) = 2 /\ fields[1].some /\ fields[2].some

\* Some(the record of effective parameters), or None when the unpacking of
\* --target-len raises ValueError
ResolveParams(a, lint_cfg) ==
    IF TruthyStr(a.target_len) /\ ~TargetLenUnpacks(a.target_len.val)
    THEN None
    ELSE Some(
         [max_sent_len |-> IF TruthyInt(a.max_sent) THEN a.max_sent.val
                           ELSE Get(lint_cfg.max_sentence_len, 22),
          sr |-> IF TruthyStr(a.target_len)
                 THEN <<a.target_len.val[1].val, a.target_len.val[2].val>>
                 ELSE Get(lint_cfg.target_sentence_len, <<8, 16>>),
          max_para_sents |-> IF TruthyInt(a.max_para) THEN a.max_para.val
                             ELSE Get(lint_cfg.max_paragraph_sentences, 5),
          passive_allowed |-> a.passive_allow \/ Get(lint_cfg.passive_voice_allowed, FALSE),
          require_metrics |-> IF ~a.require_metrics.some
                              THEN Get(lint_cfg.require_metrics_for_claims, TRUE)
                              ELSE a.require_metrics.val = 1])

(***************************************************************************)
(* Specification Spec: one run of main()                                   *)
(***************************************************************************)
MaxPaths == 2

\* 'Воду  лить.'
DocBanned == <<1042, 1086, 1076, 1091, 32, 32, 1083, 1080, 1090, 1100, 46>>

\* 'router быстро. \n\n\n\nслово \t\n'
DocMessy ==
    <<114, 111, 117, 116, 101, 114, 32, 1073, 1099, 1089, 1090, 1088, 1086, 46, 32,
      10, 10, 10, 10, 1089, 1083, 1086, 1074, 1086, 32, 9, 10>>

\* a file whose read_text raises OSError
Unreadable == None

\* an empty config/style.yaml: load_cfg returns {}
CfgEmpty ==
    [lint |-> [max_sentence_len |-> None, target_sentence_len |-> None,
               max_paragraph_sentences |-> None, passive_voice_allowed |-> None,
               require_metrics_for_claims |-> None, banned_phrases |-> None],
     forbidden |-> [cliche |-> None, lexicon |-> None]]

\* a config/style.yaml that bans 'воду лить' and sets its own thresholds
CfgStrict ==
    [lint |-> [max_sentence_len |-> Some(3), target_sentence_len |-> Some(<<1, 2>>),
               max_paragraph_sentences |-> Some(1), passive_voice_allowed |-> None,
               require_metrics_for_claims |-> None,
               banned_phrases |-> Some(<< <<1074, 1086, 1076, 1091, 32, 1083, 1080, 1090, 1100>> >>)],
     forbidden |-> [cliche |-> None, lexicon |-> None]]

\* the values of --target-len a run is given: absent, "1,3", "3,1" (inverted)
\* and "x" (malformed)
RunTargetLens ==
    {None, Some(<<Some(1), Some(3)>>), Some(<<Some(3), Some(1)>>), Some(<<None>>)}

\* the command lines of a run (--glob and --exclude are never given)
RunArgs ==
    [paths : SeqsUpTo(PathNames, MaxPaths), json_out : BOOLEAN, fix : BOOLEAN,
     max_sent : {None}, target_len : RunTargetLens, max_para : {None},
     passive_allow : {FALSE}, require_metrics : {None}]

\* the orders in which a directory scan may yield the files
Listings == {<<1, 2, 3>>, <<3, 2, 1>>, <<2, 3, 1>>}

Init ==
    /\ pc = "start"
    /\ args = None
    /\ cfg_file \in {None, Some(CfgEmpty), Some(CfgStrict)}
    /\ cfg = None
    /\ params = None
    /\ disk \in {d \in [Files -> {Some(DocBanned), Some(DocMessy), Unreadable}] :
                    d[2] = Some(DocBanned)}
    /\ targets = None
    /\ idx = 0
    /\ stmt = 0
    /\ results = <<>>
    /\ stdout = None
    /\ stderr = None
    /\ json_file = None
    /\ exit_status = None
    /\ hist = <<>>
    /\ FnIdle

\* parse_args() returns a namespace
ParseArgs ==
    /\ pc = "start"
    /\ \E a \in RunArgs : args' = Some(a)
    /\ pc' = "load_cfg"
    /\ UNCHANGED <<cfg_file, cfg, params, disk, targets, idx, stmt, results, stdout,
                   stderr, json_file, exit_status, hist, fnVars>>

\* parse_args() rejects the command line: argparse prints the usage and exits 2
ArgparseError ==
    /\ pc = "start"
    /\ stderr' = Some("usage")
    /\ exit_status' = Some(2)
    /\ pc' = "done"
    /\ UNCHANGED <<args, cfg_file, cfg, params, disk, targets, idx, stmt, results, stdout,
                   json_file, hist, fnVars>>

\* load_cfg() when config/style.yaml does not exist
LoadCfgMissing ==
    /\ pc = "load_cfg"
    /\ ~cfg_file.some
    /\ stderr' = Some("[ERR] Missing config")
    /\ exit_status' = Some(2)
    /\ pc' = "done"
    /\ UNCHANGED <<args, cfg_file, cfg, params, disk, targets, idx, stmt, results, stdout,
                   json_file, hist, fnVars>>

\* load_cfg() returns the parsed document
LoadCfg ==
    /\ pc = "load_cfg"
    /\ cfg_file.some
    /\ cfg' = cfg_file
    /\ pc' = "params"
    /\ UNCHANGED <<args, cfg_file, params, disk, targets, idx, stmt, results, stdout,
                   stderr, json_file, exit_status, hist, fnVars>>

\* lines 292-303 when --target-len does not unpack: ValueError leaves main()
ParamsValueError ==
    /\ pc = "params"
    /\ ~ResolveParams(args.val, cfg.val.lint).some
    /\ stderr' = Some("Traceback: ValueError")
    /\ exit_status' = Some(1)
    /\ pc' = "done"
    /\ UNCHANGED <<args, cfg_file, cfg, params, disk, targets, idx, stmt, results, stdout,
                   json_file, hist, fnVars>>

\* lines 292-303
SetParams ==
    /\ pc = "params"
    /\ ResolveParams(args.val, cfg.val.lint).some
    /\ params' = ResolveParams(args.val, cfg.val.lint)
    /\ pc' = "targets"
    /\ UNCHANGED <<args, cfg_file, cfg, disk, targets, idx, stmt, results, stdout,
                   stderr, json_file, exit_status, hist, fnVars>>

\* iter_targets finds nothing: main() returns 2
NoTargets ==
    /\ pc = "targets"
    /\ \E listing \in Listings :
        /\ iter_targets(args.val, listing) = <<>>
        /\ targets' = Some(iter_targets(args.val, listing))
    /\ stderr' = Some("[ERR] No .md/.txt files found.")
    /\ exit_status' = Some(2)
    /\ pc' = "done"
    /\ UNCHANGED <<args, cfg_file, cfg, params, disk, idx, stmt, results, stdout,
                   json_file, hist, fnVars>>

\* iter_targets finds files: the loop starts
IterTargets ==
    /\ pc = "targets"
    /\ \E listing \in Listings :
        /\ iter_targets(args.val, listing) # <<>>
        /\ targets' = Some(iter_targets(args.val, listing))
    /\ idx' = 1
    /\ stmt' = 1
    /\ pc' = "loop"
    /\ UNCHANGED <<args, cfg_file, cfg, params, disk, results, stdout, stderr,
                   json_file, exit_status, hist, fnVars>>

\* a plausible slip: the file checked before it is fixed
LoopBodyCheckFirst == <<"check", "fix">>

\* the statements of the loop body, in order
LoopBody == <<"fix", "check">>

\* the file the loop is at
CurrentFile == targets.val[idx]

\* control moves to the next statement, the next file, or past the loop
Advance ==
    IF stmt < Len(LoopBody) THEN stmt' = stmt + 1 /\ idx' = idx /\ pc' = "loop"
    ELSE IF idx < Len(targets.val) THEN stmt' = 1 /\ idx' = idx + 1 /\ pc' = "loop"
    ELSE stmt' = stmt /\ idx' = idx /\ pc' = "render"

\* an OSError leaves main(): traceback, status 1
OSErrorExit ==
    /\ stderr' = Some("Traceback: OSError")
    /\ exit_status' = Some(1)
    /\ pc' = "done"
    /\ UNCHANGED <<idx, stmt>>

\* "if args.fix:" without --fix
SkipAutofix ==
    /\ pc = "loop"
    /\ LoopBody[stmt] = "fix"
    /\ ~args.val.fix
    /\ Advance
    /\ UNCHANGED <<args, cfg_file, cfg, params, disk, targets, results, stdout, stderr,
                   json_file, exit_status, hist, fnVars>>

\* safe_autofix(p): the file is read, fixed and written back
SafeAutofix ==
    /\ pc = "loop"
    /\ LoopBody[stmt] = "fix"
    /\ args.val.fix
    /\ disk[CurrentFile].some
    /\ disk' = [disk EXCEPT ![CurrentFile] = Some(AutofixText(@.val))]
    /\ hist' = Append(hist, [op |-> "fix", file |-> CurrentFile,
                             before |-> disk[CurrentFile].val,
                             after |-> AutofixText(disk[CurrentFile].val)])
    /\ Advance
    /\ UNCHANGED <<args, cfg_file, cfg, params, targets, results, stdout, stderr,
                   json_file, exit_status, fnVars>>

\* safe_autofix(p) on a file that cannot be read
SafeAutofixOSError ==
    /\ pc = "loop"
    /\ LoopBody[stmt] = "fix"
    /\ args.val.fix
    /\ ~disk[CurrentFile].some
    /\ OSErrorExit
    /\ UNCHANGED <<args, cfg_file, cfg, params, disk, targets, results, stdout,
                   json_file, hist, fnVars>>

\* results.append(check_file(p, ...))
CheckFile ==
    /\ pc = "loop"
    /\ LoopBody[stmt] = "check"
    /\ disk[CurrentFile].some
    /\ results' = Append(results,
                    check_file(CurrentFile, disk[CurrentFile].val, cfg.val, params.val.sr,
                               params.val.max_sent_len, params.val.max_para_sents,
                               params.val.passive_allowed, params.val.require_metrics))
    /\ hist' = Append(hist, [op |-> "check", file |-> CurrentFile,
                             text |-> disk[CurrentFile].val])
    /\ Advance
    /\ UNCHANGED <<args, cfg_file, cfg, params, disk, targets, stdout, stderr,
                   json_file, exit_status, fnVars>>

\* check_file(p, ...) on a file that cannot be read
CheckFileOSError ==
    /\ pc = "loop"
    /\ LoopBody[stmt] = "check"
    /\ ~disk[CurrentFile].some
    /\ OSErrorExit
    /\ UNCHANGED <<args, cfg_file, cfg, params, disk, targets, results, stdout,
                   json_file, hist, fnVars>>

\* md, total_err = render_md(results); print(md)
Render ==
    /\ pc = "render"
    /\ stdout' = Some(render_md(results).md)
    /\ pc' = "return"
    /\ UNCHANGED <<args, cfg_file, cfg, params, disk, targets, idx, stmt, results,
                   stderr, json_file, exit_status, hist, fnVars>>

\* json.dumps({"results": results}): lists and keys keep their order
JsonReport(rs) == [results |-> rs]

\* the JSON report is written if --json was given; main() returns 1 or 0
Return ==
    /\ pc = "return"
    /\ json_file' = IF args.val.json_out THEN Some(JsonReport(results)) ELSE json_file
    /\ exit_status' = Some(IF render_md(results).total_err # 0 THEN 1 ELSE 0)
    /\ pc' = "done"
    /\ UNCHANGED <<args, cfg_file, cfg, params, disk, targets, idx, stmt, results,
                   stdout, stderr, hist, fnVars>>

Next ==
    \/ ParseArgs \/ ArgparseError \/ LoadCfgMissing \/ LoadCfg
    \/ ParamsValueError \/ SetParams \/ NoTargets \/ IterTargets
    \/ SkipAutofix \/ SafeAutofix \/ SafeAutofixOSError
    \/ CheckFile \/ CheckFileOSError \/ Render \/ Return

Spec == Init /\ [][Next]_vars

(***************************************************************************)
(* Claims about a run of main()                                            *)
(***************************************************************************)
\* some file report of the run holds a finding of level ERROR
AnyErrorFinding ==
    \E n \in 1..Len(results) : \E i \in 1..Len(results[n].issues) :
        results[n].issues[i].level = "ERROR"

\* the files that have a report
ReportedFiles == {results[n].file : n \in 1..Len(results)}

\* C1: in every run past argument parsing and configuration loading, the exit
\* status is 2 exactly when no target file was discovered, and otherwise 1 if
\* some file's report holds an ERROR finding and 0 if none does.
C1_ExitStatus ==
    (pc = "done" /\ params.some) =>
        /\ (exit_status = Some(2)) <=> (targets.val = <<>>)
        /\ targets.val # <<>> => exit_status = Some(IF AnyErrorFinding THEN 1 ELSE 0)

\* the files iter_targets is to discover, stated as a set: every file that is
\* not excluded and is named by an argument or lies below a directory argument
DiscoveredSet(a) ==
    LET inputs == IF a.paths = <<>> THEN <<".">> ELSE a.paths
    IN  {f \in Files :
            /\ ~_is_excluded(f)
            /\ \E k \in 1..Len(inputs) :
                \/ is_file(inputs[k]) /\ resolve(inputs[k]) = f
                \/ is_dir(inputs[k]) /\ f \in FilesBelow(inputs[k])}

StrictlyAscending(q) == \A i, j \in 1..Len(q) : i < j => q[i] < q[j]

\* the files of the sections of a printed report, in order
SectionFiles(md) ==
    LET sections == SelectSeq(md, LAMBDA line : line.kind = "file")
    IN  [i \in 1..Len(sections) |-> sections[i].file]

\* C5: the report holds exactly one file report per distinct discovered file,
\* in ascending order of resolved path, whatever the order of the arguments and
\* of discovery: the targets are the discovered set in ascending order, the
\* reports built so far are a prefix of them, and the printed and the JSON
\* report list exactly the targets, in that order.
C5_ReportOrder ==
    targets.some =>
        /\ StrictlyAscending(targets.val)
        /\ {targets.val[i] : i \in 1..Len(targets.val)} = DiscoveredSet(args.val)
        /\ Len(results) <= Len(targets.val)
        /\ \A n \in 1..Len(results) : results[n].file = targets.val[n]
        /\ stdout.some => SectionFiles(stdout.val) = targets.val
        /\ json_file.some =>
              [n \in 1..Len(json_file.val.results) |-> json_file.val.results[n].file]
                  = targets.val

\* C5 witness: a finished run that printed a report of two files although the
\* arguments named the later file first, or named one file twice
C5_Witness ==
    /\ pc = "done"
    /\ stdout.some
    /\ SectionFiles(stdout.val) = <<1, 3>>
    /\ args.val.paths \in {<<"docs", "a.md">>, <<".", "./a.md">>}

\* C4: with --fix, every file's findings are computed after that file's autofix
\* write and from the text that write left; no autofix of the file follows, so
\* the file still holds the text its findings were computed from.
C4_FixBeforeCheck ==
    (args.some /\ args.val.fix) =>
        /\ \A k \in 1..Len(hist) : hist[k].op = "check" =>
            /\ \E j \in 1..(k - 1) :
                /\ hist[j].op = "fix"
                /\ hist[j].file = hist[k].file
                /\ hist[j].after = hist[k].text
            /\ \A j \in (k + 1)..Len(hist) :
                ~(hist[j].op = "fix" /\ hist[j].file = hist[k].file)
            /\ disk[hist[k].file] = Some(hist[k].text)
        /\ \A n \in 1..Len(results) :
            results[n] = check_file(results[n].file, disk[results[n].file].val, cfg.val,
                                    params.val.sr, params.val.max_sent_len,
                                    params.val.max_para_sents, params.val.passive_allowed,
                                    params.val.require_metrics)

\* C4 witness: a finished --fix run whose autofix changed a file and whose
\* report holds findings of that file
C4_Witness ==
    /\ pc = "done"
    /\ stdout.some
    /\ args.val.fix
    /\ \E j \in 1..Len(hist) :
        /\ hist[j].op = "fix"
        /\ hist[j].before # hist[j].after
        /\ \E n \in 1..Len(results) :
            results[n].file = hist[j].file /\ results[n].issues # <<>>

\* the command line or the environment of the run is a usage error: argparse
\* rejected the arguments, the configuration document is missing, --target-len
\* is malformed or inverted, or no file matched
UsageError ==
    \/ ~args.some
    \/ ~cfg_file.some
    \/ /\ args.val.target_len.some
       /\ \/ ~TargetLenUnpacks(args.val.target_len.val)
          \/ args.val.target_len.val[1].val > args.val.target_len.val[2].val
    \/ targets.some /\ targets.val = <<>>

\* C8: every usage error ends the process with status 2 and without any report:
\* nothing is printed and no JSON report is written.
C8_UsageErrorsExit2 ==
    (pc = "done" /\ UsageError) =>
        exit_status = Some(2) /\ ~stdout.some /\ ~json_file.some

\* C9: a target file that cannot be read does not abort the run: the report is
\* printed, the exit status is 0 or 1, every readable target has its report and
\* an unreadable one has none or one without findings.
C9_UnreadableFileDoesNotAbort ==
    (pc = "done" /\ targets.some /\ targets.val # <<>>
        /\ \E i \in 1..Len(targets.val) : ~disk[targets.val[i]].some) =>
        /\ stdout.some
        /\ exit_status \in {Some(0), Some(1)}
        /\ \A i \in 1..Len(targets.val) :
            IF disk[targets.val[i]].some
            THEN targets.val[i] \in ReportedFiles
            ELSE \A n \in 1..Len(results) :
                    results[n].file = targets.val[i] => results[n].issues = <<>>

(***************************************************************************)
(* Specification SpecParams: lines 292-303 applied to a command line and a *)
(* lint section                                                            *)
(***************************************************************************)
ParamArgs ==
    [paths : {<<>>}, json_out : {FALSE}, fix : {FALSE},
     max_sent : {None, Some(0), Some(30)},
     target_len : {None, Some(<<>>), Some(<<Some(1), Some(3)>>), Some(<<None>>)},
     max_para : {None, Some(0), Some(7)},
     passive_allow : BOOLEAN,
     require_metrics : {None, Some(0), Some(1)}]

ParamLintCfgs ==
    [max_sentence_len : {None, Some(25)},
     target_sentence_len : {None, Some(<<5, 9>>)},
     max_paragraph_sentences : {None, Some(4)},
     passive_voice_allowed : {None, Some(FALSE), Some(TRUE)},
     require_metrics_for_claims : {None, Some(FALSE), Some(TRUE)},
     banned_phrases : {None}]

InitParams ==
    /\ fn_in \in [a : ParamArgs, lint : ParamLintCfgs]
    /\ fn_out = <<>>
    /\ fn_again = <<>>
    /\ fn_pc = "ready"
    /\ RunIdle

ApplyResolveParams ==
    /\ fn_pc = "ready"
    /\ fn_out' = ResolveParams(fn_in.a, fn_in.lint)
    /\ fn_pc' = "once"
    /\ UNCHANGED <<fn_in, fn_again>>
    /\ UNCHANGED runVars

NextParams == ApplyResolveParams

SpecParams == InitParams /\ [][NextParams]_vars

\* C7: each effective rule parameter is the invocation option whenever the
\* option is given, whatever value it has; else the value of the configuration
\* file when the key is present; else the default 22, 5, [8,16], False, True.
C7_OptionsTakePrecedence ==
    (fn_pc = "once" /\ fn_out.some) =>
        LET a == fn_in.a
            l == fn_in.lint
            p == fn_out.val
        IN  /\ p.max_sent_len = IF a.max_sent.some THEN a.max_sent.val
                                ELSE IF l.max_sentence_len.some THEN l.max_sentence_len.val
                                ELSE 22
            /\ p.max_para_sents = IF a.max_para.some THEN a.max_para.val
                                  ELSE IF l.max_paragraph_sentences.some
                                       THEN l.max_paragraph_sentences.val
                                  ELSE 5
            /\ (a.target_len.some /\ a.target_len.val # <<>>) =>
                   p.sr = <<a.target_len.val[1].val, a.target_len.val[2].val>>
            /\ ~a.target_len.some =>
                   p.sr = IF l.target_sentence_len.some THEN l.target_sentence_len.val
                          ELSE <<8, 16>>
            /\ p.passive_allowed = IF a.passive_allow THEN TRUE
                                   ELSE IF l.passive_voice_allowed.some
                                        THEN l.passive_voice_allowed.val
                                   ELSE FALSE
            /\ p.require_metrics = IF a.require_metrics.some THEN a.require_metrics.val = 1
                                   ELSE IF l.require_metrics_for_claims.some
                                        THEN l.require_metrics_for_claims.val
                                   ELSE TRUE

(***************************************************************************)
(* Specification SpecSeg: a text split into paragraphs, each paragraph     *)
(* into sentences                                                          *)
(***************************************************************************)
MaxSegLen == 5

\* "г", "Г", ".", "!", space, newline
SegAlphabet == {1075, 1043, DOT, BANG, SP, NL}

SegSamples == {
    <<1042, 32, 50, 48, 50, 48, 32, 1075, 46, 32, 1086, 1085, 32, 1091, 1096, 1105,
      1083, 32, 1085, 1072, 32, 1089, 1090, 1088, 46, 32, 1055, 1103, 1090, 1100, 33,
      32, 1055, 1086, 1090, 1086, 1084, 32, 1074, 1089, 1105, 46>>,   \* 'В 2020 г. он ушёл на стр. Пять! Потом всё.'
    <<1057, 1084, 1086, 1090, 1088, 1080, 32, 1088, 1080, 1089, 46, 32, 51, 32, 1076, 1083,
      1103, 32, 1076, 1077, 1090, 1072, 1083, 1077, 1081, 46>>,   \* 'Смотри рис. 3 для деталей.'
    <<1080, 32, 32, 1090, 46, 1076, 46, 32, 1055, 1086, 1090, 1086, 1084>>,   \* 'и  т.д. Потом'
    <<1044, 1072, 33, 32, 1053, 1077, 1090, 63, 32, 1086, 1082>>,   \* 'Да! Нет? ок'
    <<1092, 1083, 1072, 1075, 46, 32, 1055, 1086, 1090, 1086, 1084, 32, 1091, 1096, 1083,
      1080, 46>>,   \* 'флаг. Потом ушли.'
    <<1058, 46, 1045, 46, 32, 1090, 1072, 1082>>,   \* 'Т.Е. так'
    <<1089, 1084, 46, 32, 1089, 1090, 1088, 46, 32, 53, 32, 1080, 32, 1090, 46, 1087, 46, 9,
      1076, 1072, 1083, 1077, 1077>>,   \* 'см. стр. 5 и т.п.\tдалее'
    <<1075, 46, 32, 1075, 46, 32, 1043, 46>>,   \* 'г. г. Г.'
    <<1058, 46, 1082, 46, 32, 1076, 1072, 46, 10, 10, 1053, 1077, 1090, 46, 32, 1080, 32,
      1090, 46, 1076, 46, 32, 1074, 1086, 1090>>,   \* 'Т.к. да.\n\nНет. и т.д. вот'
    <<1069, 1090, 1086, 32, 1073, 1099, 1083, 1086, 32, 1074, 32, 50, 48, 50, 48, 32, 1075,
      46, 32, 1055, 1086, 1090, 1086, 1084, 32, 1074, 1089, 1105, 46>> }   \* 'Это было в 2020 г. Потом всё.'

InitSeg ==
    /\ fn_in \in SeqsUpTo(SegAlphabet, MaxSegLen) \cup SegSamples
    /\ fn_out = <<>>
    /\ fn_again = <<>>
    /\ fn_pc = "ready"
    /\ RunIdle

\* paragraphs = split_paragraphs(text)
ApplySplitParagraphs ==
    /\ fn_pc = "ready"
    /\ fn_out' = split_paragraphs(fn_in)
    /\ fn_pc' = "once"
    /\ UNCHANGED <<fn_in, fn_again>>
    /\ UNCHANGED runVars

\* sents = split_sentences(para), for every paragraph
ApplySplitSentences ==
    /\ fn_pc = "once"
    /\ fn_again' = [p \in 1..Len(fn_out) |-> split_sentences(fn_out[p])]
    /\ fn_pc' = "twice"
    /\ UNCHANGED <<fn_in, fn_out>>
    /\ UNCHANGED runVars

NextSeg == ApplySplitParagraphs \/ ApplySplitSentences

SpecSeg == InitSeg /\ [][NextSeg]_vars

RECURSIVE NonWsCount(_)
\* the number of characters of s that are not whitespace
NonWsCount(s) ==
    IF s = <<>> THEN 0
    ELSE (IF Head(s) \in Whitespace THEN 0 ELSE 1) + NonWsCount(Tail(s))

\* where the sentences of a paragraph end, each boundary given as the number of
\* non-whitespace characters before it
Boundaries(sents) == {NonWsCount(Flatten(SubSeq(sents, 1, k))) : k \in 1..(Len(sents) - 1)}

\* the places of a paragraph where a sentence may end: a terminal mark followed
\* by whitespace
SplitPoints(para) ==
    {i \in 1..(Len(para) - 1) : para[i] \in SentenceEnders /\ para[i + 1] \in Whitespace}

\* the first character after the whitespace that follows position i
NextChar(para, i) == para[RunEnd(para, i + 1, Whitespace)]

\* the paragraph up to position i ends in a configured abbreviation, whatever
\* its case and the whitespace inside it
AbbrevBefore(para, i) ==
    LET before == Lower(CollapseWsFrom(SubSeq(para, 1, i), 1))
    IN  \E k \in 1..Len(ABBREV_LIST) : EndsWith(before, ABBREV_LIST[k])

LowerLetters == (97..122) \cup (1072..1103) \cup {1105}
UpperLetters == (65..90) \cup (1040..1071) \cup {1025}

\* no sentence ends at split point i of the paragraph
NotSplitAt(para, sents, i) == NonWsCount(SubSeq(para, 1, i)) \notin Boundaries(sents)

\* an abbreviation followed by a lower-case continuation is not split
AbbrevThenLowerNotSplit ==
    fn_pc = "twice" =>
        \A p \in 1..Len(fn_out) : \A i \in SplitPoints(fn_out[p]) :
            (AbbrevBefore(fn_out[p], i) /\ NextChar(fn_out[p], i) \in LowerLetters)
                => NotSplitAt(fn_out[p], fn_again[p], i)

\* C6 as stated: an abbreviation followed by a lower-case continuation is not
\* split, and every terminal mark followed by whitespace and a capitalized new
\* sentence is split.
C6_SplitAsStated ==
    /\ AbbrevThenLowerNotSplit
    /\ fn_pc = "twice" =>
        \A p \in 1..Len(fn_out) : \A i \in SplitPoints(fn_out[p]) :
            NextChar(fn_out[p], i) \in UpperLetters
                => ~NotSplitAt(fn_out[p], fn_again[p], i)

\* C6 amended: an abbreviation followed by a lower-case continuation is not
\* split; a terminal mark followed by whitespace and a capitalized new sentence
\* is split unless the text before it ends in a member of ABBREV_LIST, and then
\* it is not split either.
C6_SplitUnlessAbbrev ==
    /\ AbbrevThenLowerNotSplit
    /\ fn_pc = "twice" =>
        \A p \in 1..Len(fn_out) : \A i \in SplitPoints(fn_out[p]) :
            NextChar(fn_out[p], i) \in UpperLetters
                => (NotSplitAt(fn_out[p], fn_again[p], i) <=> AbbrevBefore(fn_out[p], i))

\* C6 witness: a paragraph with an abbreviation before a lower-case word, an
\* abbreviation before a capitalized word and a plain sentence end before a
\* capitalized word has been split
C6_Witness ==
    /\ fn_pc = "twice"
    /\ \E p \in 1..Len(fn_out) :
        /\ \E i \in SplitPoints(fn_out[p]) :
            AbbrevBefore(fn_out[p], i) /\ NextChar(fn_out[p], i) \in LowerLetters
        /\ \E i \in SplitPoints(fn_out[p]) :
            AbbrevBefore(fn_out[p], i) /\ NextChar(fn_out[p], i) \in UpperLetters
        /\ \E i \in SplitPoints(fn_out[p]) :
            ~AbbrevBefore(fn_out[p], i) /\ NextChar(fn_out[p], i) \in UpperLetters
        /\ Len(fn_again[p]) = 2

\* the characters of s that are not whitespace, in order
NonWs(s) == SelectSeq(s, LAMBDA c : c \notin Whitespace)

\* C12: segmentation loses, duplicates and reorders no text: the paragraphs of
\* split_paragraphs, in order, have the non-whitespace characters of the
\* stripped document, the sentences of split_sentences, in order, those of
\* their paragraph, and no paragraph or sentence returned is empty.
C12_SegmentationKeepsText ==
    /\ fn_pc \in {"once", "twice"} =>
          /\ NonWs(Flatten(fn_out)) = NonWs(Strip(fn_in))
          /\ \A p \in 1..Len(fn_out) : fn_out[p] # <<>>
    /\ fn_pc = "twice" =>
          \A p \in 1..Len(fn_out) :
              /\ NonWs(Flatten(fn_again[p])) = NonWs(fn_out[p])
              /\ \A k \in 1..Len(fn_again[p]) : fn_again[p][k] # <<>>

\* C12 witness: a document of two paragraphs has been segmented, whitespace
\* was dropped between and inside them, one paragraph has two sentences and
\* one sentence was joined from two tokens after an abbreviation
C12_Witness ==
    /\ fn_pc = "twice"
    /\ Len(fn_out) >= 2
    /\ Len(Flatten(fn_out)) < Len(fn_in)
    /\ \E p \in 1..Len(fn_out) : Len(fn_again[p]) >= 2
    /\ \E p \in 1..Len(fn_out) : Len(fn_again[p]) < Cardinality(SplitPoints(fn_out[p])) + 1

(***************************************************************************)
(* Specification SpecCheck: check_file applied to a text under given rule  *)
(* parameters, and the reports made of its result                          *)
(***************************************************************************)
MaxWords == 24
MaxDocTokens == 4

\* 'он'
Word == <<1086, 1085>>

\* a sentence of n words: 'он он ... он.'
WordsSentence(n) ==
    Flatten([k \in 1..n |-> IF k < n THEN Word \o <<SP>> ELSE Word]) \o <<DOT>>

\* the pieces the documents are put together from
DocTokens == {
    <<1073, 1099, 1089, 1090, 1088, 1086, 32, 1087, 1088, 1086, 1080, 1079, 1074, 1077, 1076,
      1077, 1085, 32, 114, 111, 117, 116, 101, 114, 46, 32>>,   \* 'быстро произведен router. '
    <<114, 111, 117, 116, 101, 114, 46, 32>>,                   \* 'router. '
    <<1089, 1083, 1086, 1074, 1086, 46, 32>>,                   \* 'слово. '
    <<10, 10>> }                                                \* '\n\n'

\* a configuration that bans 'быстро' and, twice, 'router'
CfgBans ==
    [lint |-> [max_sentence_len |-> None, target_sentence_len |-> None,
               max_paragraph_sentences |-> None, passive_voice_allowed |-> None,
               require_metrics_for_claims |-> None,
               banned_phrases |-> Some(<< <<1073, 1099, 1089, 1090, 1088, 1086>>,     \* 'быстро'
                                          <<114, 111, 117, 116, 101, 114>> >>)],      \* 'router'
     forbidden |-> [cliche |-> Some(<< <<82, 111, 117, 116, 101, 114>> >>),           \* 'Router'
                    lexicon |-> None]]

\* one sentence of 0..MaxWords words, under the default and under small limits
LengthInputs ==
    [kind : {"length"}, words : 0..MaxWords, text : {<<>>}, conf : {CfgEmpty},
     limits : {[sr |-> <<8, 16>>, max_sent_len |-> 22, max_para_sents |-> 5],
               [sr |-> <<1, 2>>, max_sent_len |-> 3, max_para_sents |-> 1]},
     passive_allowed : {FALSE}, require_metrics : {TRUE}]

\* documents of up to MaxDocTokens pieces, under the default and under small limits
OrderInputs ==
    [kind : {"order"}, words : {0},
     text : {Flatten(d) : d \in SeqsUpTo(DocTokens, MaxDocTokens)},
     conf : {CfgEmpty, CfgBans},
     limits : {[sr |-> <<8, 16>>, max_sent_len |-> 22, max_para_sents |-> 5],
               [sr |-> <<1, 2>>, max_sent_len |-> 2, max_para_sents |-> 1]},
     passive_allowed : BOOLEAN, require_metrics : BOOLEAN]

\* the text check_file reads
InputText(in) == IF in.kind = "length" THEN WordsSentence(in.words) ELSE in.text

InitCheck ==
    /\ fn_in \in LengthInputs \cup OrderInputs
    /\ fn_out = <<>>
    /\ fn_again = <<>>
    /\ fn_pc = "ready"
    /\ RunIdle

\* check_file(path, cfg, sr, max_sent_len, max_para_sents, passive_allowed, require_metrics)
ApplyCheckFile ==
    /\ fn_pc = "ready"
    /\ fn_out' = check_file(1, InputText(fn_in), fn_in.conf, fn_in.limits.sr,
                            fn_in.limits.max_sent_len, fn_in.limits.max_para_sents,
                            fn_in.passive_allowed, fn_in.require_metrics)
    /\ fn_pc' = "once"
    /\ UNCHANGED <<fn_in, fn_again>>
    /\ UNCHANGED runVars

\* render_md and json.dumps on the list holding that one file report
ApplyReports ==
    /\ fn_pc = "once"
    /\ fn_again' = [md |-> render_md(<<fn_out>>).md, json |-> JsonReport(<<fn_out>>)]
    /\ fn_pc' = "twice"
    /\ UNCHANGED <<fn_in, fn_out>>
    /\ UNCHANGED runVars

NextCheck == ApplyCheckFile \/ ApplyReports

SpecCheck == InitCheck /\ [][NextCheck]_vars

\* the findings of the sentence-length rule among the findings of the file
LengthFindings ==
    SelectSeq(fn_out.issues, LAMBDA it : it.type \in {"sentence_len", "sentence_target"})

\* the levels of the findings of the sentence-length rule
LengthLevels == [i \in 1..Len(LengthFindings) |-> LengthFindings[i].level]

\* a sentence of a given number of words was checked with range [8,16], max 22
CheckedDefaultLimits(n) ==
    /\ fn_pc \in {"once", "twice"}
    /\ fn_in.kind = "length"
    /\ fn_in.limits.sr = <<8, 16>>
    /\ fn_in.limits.max_sent_len = 22
    /\ fn_in.words = n

\* C2 as stated: with range [8,16] and maximum 22, a sentence of 22 words yields
\* a WARN and no INFO, one of 23 words a WARN, one of 7 words an INFO, one of 12
\* words no length finding.
C2_LengthRuleAsStated ==
    /\ CheckedDefaultLimits(22) => LengthLevels = <<"WARN">>
    /\ CheckedDefaultLimits(23) => LengthLevels = <<"WARN">>
    /\ CheckedDefaultLimits(7) => LengthLevels = <<"INFO">>
    /\ CheckedDefaultLimits(12) => LengthLevels = <<>>

\* C2 amended: with range [8,16] and maximum 22, a sentence of 22 words yields
\* an INFO "outside target range" and no WARN (22 does not exceed the maximum),
\* one of 23 words a WARN and no INFO, one of 7 words an INFO, one of 12 words no
\* length finding; no sentence gets more than one length finding.
C2_LengthRule ==
    /\ CheckedDefaultLimits(22) =>
          LengthLevels = <<"INFO">> /\ LengthFindings[1].type = "sentence_target"
    /\ CheckedDefaultLimits(23) =>
          LengthLevels = <<"WARN">> /\ LengthFindings[1].type = "sentence_len"
    /\ CheckedDefaultLimits(7) =>
          LengthLevels = <<"INFO">> /\ LengthFindings[1].type = "sentence_target"
    /\ CheckedDefaultLimits(12) => LengthLevels = <<>>
    /\ (fn_pc \in {"once", "twice"} /\ fn_in.kind = "length") => Len(LengthFindings) <= 1

\* C2 witness: a sentence of exactly 22 words has been checked with range
\* [8,16] and maximum 22
C2_Witness == CheckedDefaultLimits(22) /\ word_count(InputText(fn_in)) = 22

\* the sentence index of a finding, 0 for a finding of the paragraph
SentOf(it) == IF "sent" \in DOMAIN it THEN it.sent ELSE 0

\* the place of a finding's rule in the canonical order
RuleRank(it) ==
    CASE it.type = "paragraph_len" -> 1
      [] it.type = "banned" -> 2
      [] it.type \in {"sentence_len", "sentence_target"} -> 3
      [] it.type = "passive" -> 4
      [] it.type = "vague_no_metric" -> 5
      [] it.type = "terminology" -> 6

\* finding x may stand before finding y in a file's list
MayPrecede(x, y) ==
    \/ x.para < y.para
    \/ /\ x.para = y.para
       /\ \/ SentOf(x) < SentOf(y)
          \/ /\ SentOf(x) = SentOf(y)
             /\ IF SentOf(x) = 0 THEN RuleRank(x) <= RuleRank(y)
                ELSE RuleRank(x) < RuleRank(y)

\* the findings are in canonical order, and findings of the paragraph have no
\* sentence index while the others have one
CanonicalOrder(issues) ==
    /\ \A i, j \in 1..Len(issues) : i < j => MayPrecede(issues[i], issues[j])
    /\ \A i \in 1..Len(issues) : (SentOf(issues[i]) = 0) <=> (RuleRank(issues[i]) <= 2)

\* the finding lines of a printed report, in order
IssueLines(md) == SelectSeq(md, LAMBDA line : line.kind = "issue")

\* C10: the findings of a file are ordered by paragraph; within a paragraph the
\* findings of the paragraph (paragraph_len, then banned) precede those of its
\* sentences, which come by sentence index and within a sentence in the order
\* length, passive, vague_no_metric, terminology; the printed report and the
\* JSON report list the findings in that same order.
C10_FindingOrder ==
    /\ fn_pc \in {"once", "twice"} => CanonicalOrder(fn_out.issues)
    /\ fn_pc = "twice" =>
        /\ fn_again.json.results[1].issues = fn_out.issues
        /\ Len(IssueLines(fn_again.md)) = Len(fn_out.issues)
        /\ \A i \in 1..Len(fn_out.issues) :
            /\ IssueLines(fn_again.md)[i].level = fn_out.issues[i].level
            /\ IssueLines(fn_again.md)[i].msg = fn_out.issues[i].msg
            /\ IssueLines(fn_again.md)[i].where =
                  IF SentOf(fn_out.issues[i]) = 0 THEN <<fn_out.issues[i].para>>
                  ELSE <<fn_out.issues[i].para, fn_out.issues[i].sent>>

\* C10 witness: a reported file with findings in two paragraphs, one paragraph
\* having both its length and a banned-phrase finding followed by findings of
\* two sentences, one of them with all four sentence rules
C10_Witness ==
    /\ fn_pc = "twice"
    /\ \E i, j \in 1..Len(fn_out.issues) : fn_out.issues[i].para # fn_out.issues[j].para
    /\ \E i \in 1..(Len(fn_out.issues) - 6) :
        /\ [k \in 1..6 |-> fn_out.issues[i + k - 1].type]
              = <<"paragraph_len", "banned", "banned", "sentence_len", "passive",
                  "vague_no_metric">>
        /\ fn_out.issues[i + 6].type = "terminology"
        /\ \E j \in (i + 7)..Len(fn_out.issues) :
            fn_out.issues[j].para = fn_out.issues[i].para /\ SentOf(fn_out.issues[j]) = 2

(***************************************************************************)
(* Specification SpecBanned: collect_banned on a configuration whose three *)
(* sources hold a given sequence of phrases, and check_file under it       *)
(***************************************************************************)
MaxBanned == 3

\* the spellings a configuration lists: 'a b', 'A  b', 'B' and ' '
BannedSpellings == { <<97, 32, 98>>, <<65, 32, 32, 98>>, <<66>>, <<32>> }

\* the texts checked: 'A  B c.\n\nb b.\n\nq' and 'a\tb'
BannedDocs == { <<65, 32, 32, 66, 32, 99, 46, 10, 10, 98, 32, 98, 46, 10, 10, 113>>,
                <<97, 9, 98>> }

\* a list-valued key of the configuration: absent when it would be empty and
\* the document leaves it out
ListKey(items, absent) == IF items = <<>> /\ absent THEN None ELSE Some(items)

\* forbidden["лексика"] holding the phrases as strings, as one nested list after
\* an entry that is neither, or as a string followed by a nested list
LexiconOf(phrases, shape) ==
    IF phrases = <<>> THEN <<>>
    ELSE IF shape = "strs" THEN [i \in 1..Len(phrases) |-> [kind |-> "str", val |-> phrases[i]]]
    ELSE IF shape = "nested" THEN <<[kind |-> "other"], [kind |-> "list", items |-> phrases]>>
    ELSE <<[kind |-> "str", val |-> Head(phrases)], [kind |-> "list", items |-> Tail(phrases)]>>

\* the configuration whose lint.banned_phrases holds the first i phrases, whose
\* forbidden clichés hold the next j - i and whose forbidden lexicon the rest
BannedCfg(phrases, i, j, shape, absent) ==
    [lint |-> [max_sentence_len |-> None, target_sentence_len |-> None,
               max_paragraph_sentences |-> None, passive_voice_allowed |-> None,
               require_metrics_for_claims |-> None,
               banned_phrases |-> ListKey(SubSeq(phrases, 1, i), absent)],
     forbidden |-> [cliche |-> ListKey(SubSeq(phrases, i + 1, j), absent),
                    lexicon |-> ListKey(LexiconOf(SubSeq(phrases, j + 1, Len(phrases)), shape),
                                        absent)]]

\* the ways of cutting n phrases into the three sources
Cuts(n) == {c \in (0..n) \X (0..n) : c[1] <= c[2]}

\* the configuration (its phrases in source order kept beside it) and the text
InitBanned ==
    /\ \E ph \in SeqsUpTo(BannedSpellings, MaxBanned) :
       \E c \in Cuts(Len(ph)), shape \in {"strs", "nested", "mixed"}, absent \in BOOLEAN,
          d \in BannedDocs :
           fn_in = [phrases |-> ph, conf |-> BannedCfg(ph, c[1], c[2], shape, absent), text |-> d]
    /\ fn_out = <<>>
    /\ fn_again = <<>>
    /\ fn_pc = "ready"
    /\ RunIdle

\* banned = collect_banned(cfg)
ApplyCollectBanned ==
    /\ fn_pc = "ready"
    /\ fn_out' = collect_banned(fn_in.conf)
    /\ fn_pc' = "once"
    /\ UNCHANGED <<fn_in, fn_again>>
    /\ UNCHANGED runVars

\* check_file on the text under that configuration, with the default limits
ApplyCheckBanned ==
    /\ fn_pc = "once"
    /\ fn_again' = check_file(1, fn_in.text, fn_in.conf, <<8, 16>>, 22, 5, FALSE, TRUE).issues
    /\ fn_pc' = "twice"
    /\ UNCHANGED <<fn_in, fn_out>>
    /\ UNCHANGED runVars

NextBanned == ApplyCollectBanned \/ ApplyCheckBanned

SpecBanned == InitBanned /\ [][NextBanned]_vars

\* the normalized forms of the phrases the configuration lists
SourceForms == {normalize(fn_in.phrases[i]) : i \in 1..Len(fn_in.phrases)}

\* the place in the configuration where a normalized form is first seen
FirstSeen(form) ==
    CHOOSE i \in 1..Len(fn_in.phrases) :
        /\ normalize(fn_in.phrases[i]) = form
        /\ \A k \in 1..(i - 1) : normalize(fn_in.phrases[k]) # form

\* the merged list has no two entries of one normalized form, holds exactly the
\* given forms, each in its first-seen spelling, in first-seen order
MergedIs(forms) ==
    /\ \A i, j \in 1..Len(fn_out) : i # j => normalize(fn_out[i]) # normalize(fn_out[j])
    /\ {normalize(fn_out[i]) : i \in 1..Len(fn_out)} = forms
    /\ \A i \in 1..Len(fn_out) : fn_out[i] = fn_in.phrases[FirstSeen(normalize(fn_out[i]))]
    /\ \A i, j \in 1..Len(fn_out) :
          i < j => FirstSeen(normalize(fn_out[i])) < FirstSeen(normalize(fn_out[j]))

\* the banned-phrase findings of paragraph pi whose phrase has the given form
BannedFindings(pi, form) ==
    SelectSeq(fn_again, LAMBDA it : it.type = "banned" /\ it.para = pi
                                    /\ normalize(it.msg) = form)

\* every paragraph has one ERROR finding for each of the given forms that its
\* normalized text contains, and no other banned-phrase finding
FindingsAre(forms) ==
    LET paragraphs == split_paragraphs(fn_in.text)
    IN  /\ \A pi \in 1..Len(paragraphs) : \A form \in forms :
              /\ Len(BannedFindings(pi, form))
                    = (IF Contains(normalize(paragraphs[pi]), form) THEN 1 ELSE 0)
              /\ \A k \in 1..Len(BannedFindings(pi, form)) :
                    BannedFindings(pi, form)[k].level = "ERROR"
        /\ \A k \in 1..Len(fn_again) :
              fn_again[k].type = "banned" =>
                  /\ fn_again[k].para \in 1..Len(paragraphs)
                  /\ normalize(fn_again[k].msg) \in forms

\* C11 as stated: the phrases of the three sources are merged into one list
\* with no two entries of the same normalized form, each form kept in its
\* first-seen spelling and order; each paragraph gets exactly one ERROR banned
\* finding per distinct normalized phrase of the configuration that its
\* normalized text contains, and none for the others.
C11_BannedAsStated ==
    /\ fn_pc \in {"once", "twice"} => MergedIs(SourceForms)
    /\ fn_pc = "twice" => FindingsAre(SourceForms)

\* C11 amended: as stated, for the phrases whose normalized form is not empty;
\* a phrase whose normalized form is empty (an empty or all-whitespace entry)
\* is left out of the merged list and never yields a finding.
C11_BannedDedup ==
    /\ fn_pc \in {"once", "twice"} => MergedIs(SourceForms \ {<<>>})
    /\ fn_pc = "twice" =>
          /\ FindingsAre(SourceForms \ {<<>>})
          /\ \A k \in 1..Len(fn_again) :
                fn_again[k].type = "banned" => normalize(fn_again[k].msg) # <<>>

\* C11 witness: the three sources each list a phrase, two of them one phrase in
\* two spellings, the merged list keeps the first spelling, and a paragraph
\* that contains it twice over has one finding for it
C11_Witness ==
    /\ fn_pc = "twice"
    /\ fn_in.phrases = << <<65, 32, 32, 98>>, <<66>>, <<97, 32, 98>> >>
    /\ fn_in.conf.lint.banned_phrases = Some(<< <<65, 32, 32, 98>> >>)
    /\ fn_in.conf.forbidden.cliche = Some(<< <<66>> >>)
    /\ fn_in.conf.forbidden.lexicon.some
    /\ fn_out = << <<65, 32, 32, 98>>, <<66>> >>
    /\ Len(BannedFindings(1, <<97, 32, 98>>)) = 1
    /\ Len(BannedFindings(2, <<98>>)) = 1
    /\ Len(BannedFindings(2, <<97, 32, 98>>)) = 0

(***************************************************************************)
(* Specification SpecBudget: the page budget computed by                   *)
(* _deterministic_yaml_from_input (bookforge/stages/product_brief.py)      *)
(***************************************************************************)
MaxPages == 200
MaxNegPages == 10

\* round(target_pages * 0.pct): Python rounds the double product half to even;
\* for the products met here the double rounds as the exact value n*pct/100
RoundPercent(n, pct) ==
    LET q == (n * pct) \div 100
        r == (n * pct) % 100
    IN  IF 2 * r > 100 \/ (2 * r = 100 /\ q % 2 = 1) THEN q + 1 ELSE q

\* max(a, b)
Max(a, b) == IF a >= b THEN a ELSE b

\* the pages of the page_budget entries of parts I to IV, in order
page_budget(target_pages) ==
    LET p1 == Max(20, RoundPercent(target_pages, 18))
        p2 == Max(40, RoundPercent(target_pages, 38))
        p3 == Max(30, RoundPercent(target_pages, 32))
        p4 == target_pages - (p1 + p2 + p3)
    IN  IF p4 < 10
        THEN LET delta == 10 - p4
             IN  <<p1, Max(40, p2 - delta), p3, 10>>
        ELSE <<p1, p2, p3, p4>>

InitBudget ==
    /\ fn_in \in (0 - MaxNegPages)..MaxPages
    /\ fn_out = <<>>
    /\ fn_again = <<>>
    /\ fn_pc = "ready"
    /\ RunIdle

\* data = _deterministic_yaml_from_input(payload), payload["target_pages"]
\* being fn_in
ApplyPageBudget ==
    /\ fn_pc = "ready"
    /\ fn_out' = page_budget(fn_in)
    /\ fn_pc' = "once"
    /\ UNCHANGED <<fn_in, fn_again>>
    /\ UNCHANGED runVars

NextBudget == ApplyPageBudget

SpecBudget == InitBudget /\ [][NextBudget]_vars

\* C13: for every integer target_pages the four page_budget entries sum to
\* exactly target_pages, also when part IV is raised to 10 and the difference
\* is taken from part II (floored at 40).
C13_BudgetSumsToTarget ==
    fn_pc = "once" => fn_out[1] + fn_out[2] + fn_out[3] + fn_out[4] = fn_in

====
